---- MODULE Spec2Model ----
(***************************************************************************)
(* A model of puccinialin: the target resolver (_target.py), the          *)
(* transactional download and the installer flow (_setup_rust.py) and the *)
(* command-line entry point (__main__.py).                                *)
(*                                                                         *)
(* Strings that the code splits on "-" are modelled as non-empty          *)
(* sequences of hyphen-free words: "x86_64-linux-gnu" is                  *)
(* <<"x86_64", "linux", "gnu">>, the empty string is <<"">>.  Python's    *)
(* None is the empty sequence <<>>.                                       *)
(***************************************************************************)
EXTENDS Integers, Sequences, FiniteSets, TLC

\* ------------------------------------------------------------------ bounds

\* Longest interpreter prefix (segments before the platform part) of a SOABI.
MaxPrefix == 2
\* Longest platform tag, in hyphen-delimited segments.
MaxPlat == 3

\* ------------------------------------------------------------ string model

None == <<>>

\* Python truthiness of an optional string: None and "" are falsy.
Truthy(s) == s # None /\ s # <<"">>

\* The words platform tags are drawn from.
Words ==
  {"x86_64", "amd64", "aarch64", "arm64", "i386", "native",
   "linux", "gnu", "musl", "darwin", "win", "win32", "win_amd64"}

\* The words of the vocabulary that start with "linux" / contain "darwin".
StartsWithLinux(w) == w \in {"linux"}
ContainsDarwin(w) == w \in {"darwin"}

\* `"-linux" in s`: a hyphen followed by "linux", so a segment after the first
\* that starts with "linux".
HasDashLinux(s) == \E i \in 2..Len(s) : StartsWithLinux(s[i])

\* `'darwin' in s`: some segment contains "darwin".
HasDarwin(s) == \E i \in 1..Len(s) : ContainsDarwin(s[i])

\* ----------------------------------------------------------- _target.py

rustup_targets ==
  {<<"aarch64", "apple", "darwin">>,
   <<"aarch64", "linux", "android">>,
   <<"aarch64", "pc", "windows", "msvc">>,
   <<"aarch64", "unknown", "linux", "gnu">>,
   <<"aarch64", "unknown", "linux", "musl">>,
   <<"arm", "linux", "androideabi">>,
   <<"arm", "unknown", "linux", "gnueabi">>,
   <<"arm", "unknown", "linux", "gnueabihf">>,
   <<"armv7", "linux", "androideabi">>,
   <<"armv7", "unknown", "linux", "gnueabihf">>,
   <<"i686", "apple", "darwin">>,
   <<"i686", "linux", "android">>,
   <<"i686", "pc", "windows", "gnu">>,
   <<"i686", "pc", "windows", "msvc">>,
   <<"i686", "unknown", "linux", "gnu">>,
   <<"loongarch64", "unknown", "linux", "gnu">>,
   <<"loongarch64", "unknown", "linux", "musl">>,
   <<"mips", "unknown", "linux", "gnu">>,
   <<"mips64", "unknown", "linux", "gnuabi64">>,
   <<"mips64el", "unknown", "linux", "gnuabi64">>,
   <<"mipsel", "unknown", "linux", "gnu">>,
   <<"powerpc", "unknown", "linux", "gnu">>,
   <<"powerpc64", "unknown", "linux", "gnu">>,
   <<"powerpc64le", "unknown", "linux", "gnu">>,
   <<"powerpc64le", "unknown", "linux", "musl">>,
   <<"s390x", "unknown", "linux", "gnu">>,
   <<"x86_64", "apple", "darwin">>,
   <<"x86_64", "linux", "android">>,
   <<"x86_64", "pc", "windows", "gnu">>,
   <<"x86_64", "pc", "windows", "msvc">>,
   <<"x86_64", "unknown", "freebsd">>,
   <<"x86_64", "unknown", "illumos">>,
   <<"x86_64", "unknown", "linux", "gnu">>,
   <<"x86_64", "unknown", "linux", "musl">>,
   <<"x86_64", "unknown", "netbsd">>}

\* The ways a call ends: a returned value, sys.exit(code), a raised exception.
Outcome(kind, code, exc, target, tag, out) ==
  [kind |-> kind, code |-> code, exc |-> exc, target |-> target,
   tag |-> tag, out |-> out]

\* The architectures the Linux branch normalises (GraalPy: native-x86_64-linux).
Known64 == {"x86_64", "amd64", "aarch64", "arm64"}

\* Lines 54-66: sysconfig_platform from SOABI, else from sysconfig.get_platform().
\* A SOABI with one hyphen unpacks into two names; any other SOABI is split
\* with maxsplit=2 and unpacked into three, which raises ValueError when it
\* has no hyphen at all.
ParseSoabi(soabi, platform) ==
  IF Truthy(soabi)
  THEN IF Len(soabi) - 1 = 1
       THEN [ok |-> TRUE, tag |-> <<soabi[2]>>,
             out |-> <<"Python reports SOABI">>]
       ELSE IF Len(soabi) >= 3
            THEN [ok |-> TRUE, tag |-> SubSeq(soabi, 3, Len(soabi)),
                  out |-> <<"Python reports SOABI">>]
            ELSE [ok |-> FALSE, tag |-> None,
                  out |-> <<"Python reports SOABI">>]
  ELSE [ok |-> TRUE, tag |-> platform, out |-> <<"Python reports platform">>]

\* ComputeTarget without the GraalPy normalisation of line 75-76.
ComputeTargetNoNormalise(tag, machine) ==
  IF HasDashLinux(tag)
  THEN IF Len(tag) # 3 \/ tag[2] # "linux"
       THEN Outcome("exit", 1, "", None, tag, <<"Unrecognized linux platform">>)
       ELSE Outcome("return", 0, "", <<tag[1], "unknown", tag[2], tag[3]>>, tag, <<>>)
  ELSE Outcome("exit", 1, "", None, tag, <<"Unsupported platform">>)

\* ComputeTarget reading the macOS architecture from the tag's first segment
\* instead of platform.machine().
ComputeTargetTagArch(tag, machine) ==
  IF HasDarwin(tag) /\ ~HasDashLinux(tag)
  THEN IF tag[1] \in {"arm64", "aarch64"}
       THEN Outcome("return", 0, "", <<"aarch64", "apple", "darwin">>, tag, <<>>)
       ELSE IF tag[1] = "x86_64"
            THEN Outcome("return", 0, "", <<"x86_64", "apple", "darwin">>, tag, <<>>)
            ELSE Outcome("raise", 1, "ValueError", None, tag, <<>>)
  ELSE IF tag \in {<<"win", "amd64">>, <<"win_amd64">>, <<"native", "x86_64", "win32">>}
  THEN Outcome("return", 0, "", <<"x86_64", "pc", "windows", "msvc">>, tag, <<>>)
  ELSE IF tag = <<"win32">>
  THEN Outcome("return", 0, "", <<"i686", "pc", "windows", "msvc">>, tag, <<>>)
  ELSE Outcome("exit", 1, "", None, tag, <<"Unsupported platform">>)

\* Lines 68-102: the branch by OS family.  Returns the computed target
\* (kind "return") or the way the branch ended the call.
ComputeTarget(tag, machine) ==
  IF HasDashLinux(tag)
  THEN IF Len(tag) # 3
       THEN Outcome("exit", 1, "", None, tag, <<"Unrecognized linux platform">>)
       ELSE IF tag[2] \in Known64 /\ tag[3] = "linux"
            THEN Outcome("return", 0, "", <<tag[2], "unknown", "linux", "gnu">>,
                         tag, <<>>)
            ELSE IF tag[2] # "linux"
                 THEN Outcome("exit", 1, "", None, tag,
                              <<"Unrecognized linux platform">>)
                 ELSE Outcome("return", 0, "",
                              <<tag[1], "unknown", tag[2], tag[3]>>, tag, <<>>)
  ELSE IF HasDarwin(tag)
  THEN IF machine \in {"arm64", "aarch64"}
       THEN Outcome("return", 0, "", <<"aarch64", "apple", "darwin">>, tag, <<>>)
       ELSE IF machine = "x86_64"
            THEN Outcome("return", 0, "", <<"x86_64", "apple", "darwin">>, tag, <<>>)
            ELSE Outcome("raise", 1, "ValueError", None, tag, <<>>)
  ELSE IF tag \in {<<"win", "amd64">>, <<"win_amd64">>}
  THEN Outcome("return", 0, "", <<"x86_64", "pc", "windows", "msvc">>, tag, <<>>)
  ELSE IF tag = <<"native", "x86_64", "win32">>
  THEN Outcome("return", 0, "", <<"x86_64", "pc", "windows", "msvc">>, tag, <<>>)
  ELSE IF tag = <<"win32">>
  THEN Outcome("return", 0, "", <<"i686", "pc", "windows", "msvc">>, tag, <<>>)
  ELSE Outcome("exit", 1, "", None, tag, <<"Unsupported platform">>)

\* Validate without the membership test of line 105.
ValidateAcceptAll(c) ==
  IF c.kind # "return"
  THEN c
  ELSE Outcome("return", 0, "", c.target, c.tag,
               c.out \o <<"Computed rustc target triple">>)

\* Lines 103-109: print the computed triple, then accept it only when it is
\* one of rustup_targets.
Validate(c) ==
  IF c.kind # "return"
  THEN c
  ELSE IF c.target \notin rustup_targets
       THEN Outcome("exit", 1, "", None, c.tag,
                    c.out \o <<"Computed rustc target triple",
                               "Target triple not supported by rustup">>)
       ELSE Outcome("return", 0, "", c.target, c.tag,
                    c.out \o <<"Computed rustc target triple">>)

\* get_triple (lines 48-109).
get_triple(soabi, platform, machine) ==
  LET p == ParseSoabi(soabi, platform) IN
    IF ~p.ok
    THEN Outcome("raise", 1, "ValueError", None, None, p.out)
    ELSE LET v == Validate(ComputeTarget(p.tag, machine)) IN
           [v EXCEPT !.out = p.out \o v.out]

\* ------------------------------------------------------------ bounds (flow)

\* Runs of the command-line entry point in one behaviour (all processes).
MaxRuns == 3
\* Chunks of the response body (iter_bytes yields them one at a time).
NChunks == 2
\* Distinct values token_hex can draw.
NNames == 2

\* The two invocations that may run against one installation directory.
Procs == {1, 2}

\* Paths inside <installation_dir>/rustup-init: 0 is the destination
\* rustup-init[.exe], n >= 1 is tmp_<n>.  Inode 0 means "no such file".
Dest == 0
TmpNames == 1..NNames
Paths == {Dest} \cup TmpNames
Inodes == 1..MaxRuns

SubDirs == {"rustup-init", "rustup", "cargo"}

EmptyFile == [data |-> <<>>, exec |-> FALSE]

\* The body the server streams to invocation p, chunk by chunk.
Body(p) == [i \in 1..NChunks |-> <<p, i>>]

NoOverlay == [RUST_HOME |-> None, CARGO_HOME |-> None, PATH |-> None]

VARIABLES
  host,       \* what the runtime reports: SOABI, platform tag, machine, system
  res,        \* the outcome of a direct get_triple call, or NoCall
  environ,    \* os.environ's PATH: [set, val]
  args,       \* the parsed command line: location, program, info_json
  dirs,       \* the subdirectories of the installation directory that exist
  entries,    \* directory rustup-init/: path -> inode (0: absent)
  content,    \* inode -> [data, exec]
  heads,      \* HEAD requests issued so far
  gets,       \* GET requests issued so far
  runs,       \* runs of main started so far
  pc,         \* each process's position in main / setup_rust / download_rustup
  err,        \* the error that ended the run ("" while none)
  triple,     \* target_triple
  tmp,        \* the token drawn for tmp_download (0: none)
  fd,         \* the inode fp has open (0: closed)
  sent,       \* chunks written so far
  out,        \* the lines printed to the sink `file`
  extra_env,  \* setup_rust's extra_env
  overlay,    \* the value setup_rust returned to main
  wrote       \* where main wrote the JSON: "none", "file", "stdout"

vars == <<host, res, environ, args, dirs, entries, content, heads, gets, runs,
          pc, err, triple, tmp, fd, sent, out, extra_env, overlay, wrote>>

fsVars == <<dirs, entries, content>>
inputVars == <<host, environ, args>>

NoCall == Outcome("none", 0, "", None, None, <<>>)

\* ---------------------------------------------------------------- Target

\* Target.is_windows (lines 118-119).
is_windows == host.system = "Windows"

\* Target.env_path_separator (lines 133-141).
env_path_separator == IF host.system = "Windows" THEN ";" ELSE ":"

\* ------------------------------------------------------------ _setup_rust

\* setup_rust lines 100-104: the installation directory, as path components.
installation_dir ==
  IF Truthy(args.location)
  THEN <<"cwd">> \o args.location
  ELSE <<"cache">> \o (IF Truthy(args.program) THEN args.program
                                              ELSE <<"puccinialin">>)

rustup_home == installation_dir \o <<"rustup">>
cargo_home == installation_dir \o <<"cargo">>

\* str(os.environ.get('PATH')) inside the f-string: None formats as "None".
FormatPath(e) == IF e.set THEN e.val ELSE <<"None">>

\* setup_rust line 126.
new_path == cargo_home \o <<"bin">> \o <<env_path_separator>> \o FormatPath(environ)

\* A fixed temporary name instead of a random token.
TokenHexFixed(inflight) == {1}

\* The names token_hex(16) may return to a caller: a random 128-bit token,
\* taken to differ from the token of every download in flight.
TokenHex(inflight) == TmpNames \ inflight

\* Writing straight to output_file instead of a temporary file.
TmpPathInPlace(token) == Dest

\* The path of tmp_download (line 34): tmp_<token>, beside the destination.
TmpPath(token) == token

InFlight(p) == {tmp[q] : q \in Procs \ {p}} \ {0}

UsedInodes == {entries[x] : x \in Paths} \cup {fd[q] : q \in Procs}
FreshInode == CHOOSE i \in Inodes : i \notin UsedInodes /\
                 \A j \in Inodes : j \notin UsedInodes => i <= j

Fail(p, e) ==
  /\ pc' = [pc EXCEPT ![p] = "failed"]
  /\ err' = [err EXCEPT ![p] = e]

Goto(p, l) ==
  /\ pc' = [pc EXCEPT ![p] = l]
  /\ UNCHANGED err

Say(p, line) == out' = [out EXCEPT ![p] = Append(@, line)]

\* main lines 11-21 and setup_rust lines 96-98: a new run of the entry point
\* parses its arguments and resolves the target triple.
Main(p) ==
  /\ pc[p] \in {"idle", "done", "failed"}
  /\ runs < MaxRuns
  /\ runs' = runs + 1
  /\ LET t == get_triple(host.soabi, host.platform, host.machine) IN
       /\ out' = [out EXCEPT ![p] = t.out]
       /\ IF t.kind = "return"
          THEN /\ triple' = [triple EXCEPT ![p] = t.target]
               /\ pc' = [pc EXCEPT ![p] = "mkdirs"]
               /\ err' = [err EXCEPT ![p] = ""]
          ELSE /\ triple' = [triple EXCEPT ![p] = None]
               /\ pc' = [pc EXCEPT ![p] = "failed"]
               /\ err' = [err EXCEPT ![p] =
                            IF t.kind = "exit" THEN "SystemExit" ELSE t.exc]
  /\ tmp' = [tmp EXCEPT ![p] = 0]
  /\ fd' = [fd EXCEPT ![p] = 0]
  /\ sent' = [sent EXCEPT ![p] = 0]
  /\ extra_env' = [extra_env EXCEPT ![p] = NoOverlay]
  /\ overlay' = [overlay EXCEPT ![p] = NoOverlay]
  /\ wrote' = [wrote EXCEPT ![p] = "none"]
  /\ UNCHANGED <<inputVars, res, fsVars, heads, gets>>

\* The directories lines 105-111 create: rustup-init, then rustup, then
\* rustup a second time (line 111 repeats rustup_home.mkdir).
CreatedDirs == {"rustup-init", "rustup"}

\* setup_rust lines 105-111.
MkDirs(p) ==
  /\ pc[p] = "mkdirs"
  /\ Say(p, "Installation directory")
  /\ dirs' = dirs \cup CreatedDirs
  /\ Goto(p, "check")
  /\ UNCHANGED <<inputVars, res, entries, content, heads, gets, runs, triple,
                 tmp, fd, sent, extra_env, overlay, wrote>>

\* CheckCached without the is_file() test: every run downloads.
CheckCachedAlways(p) ==
  /\ pc[p] = "check"
  /\ Say(p, "Downloading rustup-init") /\ Goto(p, "head")
  /\ UNCHANGED <<inputVars, res, fsVars, heads, gets, runs, triple,
                 tmp, fd, sent, extra_env, overlay, wrote>>

\* setup_rust lines 114-121: rustup_init.is_file() decides whether to download.
CheckCached(p) ==
  /\ pc[p] = "check"
  /\ IF entries[Dest] # 0
     THEN Say(p, "Rustup already downloaded") /\ Goto(p, "install")
     ELSE Say(p, "Downloading rustup-init") /\ Goto(p, "head")
  /\ UNCHANGED <<inputVars, res, fsVars, heads, gets, runs, triple,
                 tmp, fd, sent, extra_env, overlay, wrote>>

\* download_rustup lines 29-34: the header-only request, then the token.
HeadRequest(p) ==
  /\ pc[p] = "head"
  /\ heads' = heads + 1
  /\ \/ /\ Fail(p, "TransportError")
        /\ UNCHANGED tmp
     \/ /\ \E t \in TokenHex(InFlight(p)) : tmp' = [tmp EXCEPT ![p] = t]
        /\ Goto(p, "open")
  /\ UNCHANGED <<inputVars, res, fsVars, gets, runs, triple,
                 fd, sent, out, extra_env, overlay, wrote>>

\* download_rustup lines 35-47: entering the with block sends the GET and
\* then opens tmp_download for writing ("wb": create, or truncate).
OpenStream(p) ==
  /\ pc[p] = "open"
  /\ gets' = gets + 1
  /\ \/ /\ Fail(p, "TransportError")
        /\ UNCHANGED <<entries, content, fd>>
     \/ /\ LET path == TmpPath(tmp[p])
               ino == IF entries[path] # 0 THEN entries[path] ELSE FreshInode
           IN /\ entries' = [entries EXCEPT ![path] = ino]
              /\ content' = [content EXCEPT ![ino] = EmptyFile]
              /\ fd' = [fd EXCEPT ![p] = ino]
        /\ Goto(p, "status")
  /\ UNCHANGED <<inputVars, res, dirs, heads, runs, triple,
                 tmp, sent, out, extra_env, overlay, wrote>>

\* download_rustup line 48: response.raise_for_status().  Leaving the with
\* block on an error closes fp and leaves tmp_download behind.
RaiseForStatus(p) ==
  /\ pc[p] = "status"
  /\ \/ /\ Fail(p, "HTTPStatusError")
        /\ fd' = [fd EXCEPT ![p] = 0]
     \/ /\ Goto(p, "stream")
        /\ UNCHANGED fd
  /\ UNCHANGED <<inputVars, res, fsVars, heads, gets, runs, triple,
                 tmp, sent, out, extra_env, overlay, wrote>>

\* download_rustup lines 49-51: one iteration of the chunk loop, or the
\* stream failing; the loop ends when the body is exhausted.
WriteChunk(p) ==
  /\ pc[p] = "stream"
  /\ \/ /\ sent[p] < NChunks
        /\ content' = [content EXCEPT
                         ![fd[p]].data = Append(@, Body(p)[sent[p] + 1])]
        /\ sent' = [sent EXCEPT ![p] = @ + 1]
        /\ UNCHANGED <<pc, err, fd>>
     \/ /\ sent[p] < NChunks
        /\ Fail(p, "ReadError")
        /\ fd' = [fd EXCEPT ![p] = 0]
        /\ UNCHANGED <<content, sent>>
     \/ /\ sent[p] = NChunks
        /\ Goto(p, "chmod")
        /\ UNCHANGED <<content, sent, fd>>
  /\ UNCHANGED <<inputVars, res, dirs, entries, heads, gets, runs, triple,
                 tmp, out, extra_env, overlay, wrote>>

\* download_rustup lines 53-54 and the end of the with block: mark the
\* temporary file executable unless on Windows, then close it.
Chmod(p) ==
  /\ pc[p] = "chmod"
  /\ IF entries[TmpPath(tmp[p])] = 0
     THEN /\ Fail(p, "FileNotFoundError")
          /\ UNCHANGED content
     ELSE /\ content' = IF is_windows THEN content
                        ELSE [content EXCEPT ![entries[TmpPath(tmp[p])]].exec = TRUE]
          /\ Goto(p, "replace")
  /\ fd' = [fd EXCEPT ![p] = 0]
  /\ UNCHANGED <<inputVars, res, dirs, entries, heads, gets, runs, triple,
                 tmp, sent, out, extra_env, overlay, wrote>>

\* download_rustup lines 56-58: os.replace(tmp_download, output_file).
Replace(p) ==
  /\ pc[p] = "replace"
  /\ LET path == TmpPath(tmp[p])
         new == entries[path]
         old == entries[Dest]
     IN IF new = 0
        THEN /\ Fail(p, "FileNotFoundError")
             /\ UNCHANGED <<entries, content>>
        ELSE /\ entries' = [x \in Paths |->
                              IF x = Dest THEN new
                              ELSE IF x = path THEN 0 ELSE entries[x]]
             /\ content' = IF old # 0 /\ old # new /\ \A q \in Procs : fd[q] # old
                           THEN [content EXCEPT ![old] = EmptyFile]
                           ELSE content
             /\ Goto(p, "install")
  /\ tmp' = [tmp EXCEPT ![p] = 0]
  /\ UNCHANGED <<inputVars, res, dirs, heads, gets, runs, triple,
                 fd, sent, out, extra_env, overlay, wrote>>

\* install_rust (lines 61-82), called at line 123: check_call on the
\* bootstrapper.  A successful bootstrapper populates CARGO_HOME.
InstallRust(p) ==
  /\ pc[p] = "install"
  /\ Say(p, "Installing rust")
  /\ \/ /\ Fail(p, "CalledProcessError(rustup-init)")
        /\ UNCHANGED dirs
     \/ /\ dirs' = dirs \cup {"cargo"}
        /\ Goto(p, "env")
  /\ UNCHANGED <<inputVars, res, entries, content, heads, gets, runs, triple,
                 tmp, fd, sent, extra_env, overlay, wrote>>

\* setup_rust lines 125-133.
ComputeEnv(p) ==
  /\ pc[p] = "env"
  /\ extra_env' = [extra_env EXCEPT ![p] =
                     [RUST_HOME |-> rustup_home, CARGO_HOME |-> cargo_home,
                      PATH |-> new_path]]
  /\ Say(p, "Checking if cargo is installed")
  /\ Goto(p, "cargo")
  /\ UNCHANGED <<inputVars, res, fsVars, heads, gets, runs, triple,
                 tmp, fd, sent, overlay, wrote>>

\* CheckCargo that notes a failed version check and returns the overlay anyway.
CheckCargoLenient(p) ==
  /\ pc[p] = "cargo"
  /\ \/ err' = [err EXCEPT ![p] = "CalledProcessError(cargo)"]
     \/ UNCHANGED err
  /\ overlay' = [overlay EXCEPT ![p] = extra_env[p]]
  /\ pc' = [pc EXCEPT ![p] = "returned"]
  /\ UNCHANGED <<inputVars, res, fsVars, heads, gets, runs, triple,
                 tmp, fd, sent, out, extra_env, wrote>>

\* setup_rust lines 134-135: check_call(["cargo", "--version"]), then return.
CheckCargo(p) ==
  /\ pc[p] = "cargo"
  /\ \/ /\ Fail(p, "CalledProcessError(cargo)")
        /\ UNCHANGED overlay
     \/ /\ overlay' = [overlay EXCEPT ![p] = extra_env[p]]
        /\ Goto(p, "returned")
  /\ UNCHANGED <<inputVars, res, fsVars, heads, gets, runs, triple,
                 tmp, fd, sent, out, extra_env, wrote>>

\* main lines 23-27.
WriteJson(p) ==
  /\ pc[p] = "returned"
  /\ wrote' = [wrote EXCEPT ![p] =
                 IF Truthy(args.info_json) THEN "file" ELSE "stdout"]
  /\ Goto(p, "done")
  /\ UNCHANGED <<inputVars, res, fsVars, heads, gets, runs, triple,
                 tmp, fd, sent, out, extra_env, overlay>>

Step(p) ==
  \/ Main(p)
  \/ MkDirs(p)
  \/ CheckCached(p)
  \/ HeadRequest(p)
  \/ OpenStream(p)
  \/ RaiseForStatus(p)
  \/ WriteChunk(p)
  \/ Chmod(p)
  \/ Replace(p)
  \/ InstallRust(p)
  \/ ComputeEnv(p)
  \/ CheckCargo(p)
  \/ WriteJson(p)

\* ----------------------------------------------------------------- inputs

PrefixWords == {"cpython"}
Machines == {"x86_64", "arm64", "aarch64", "i386"}

\* Hosts the flow is run on: glibc Linux, Windows without SOABI, a macOS
\* whose machine is not recognised, a Linux whose triple rustup does not ship.
Hosts ==
  {[soabi |-> <<"cpython", "312", "x86_64", "linux", "gnu">>,
    platform |-> <<"linux", "x86_64">>, machine |-> "x86_64", system |-> "Linux"],
   [soabi |-> None,
    platform |-> <<"win", "amd64">>, machine |-> "AMD64", system |-> "Windows"],
   [soabi |-> <<"cpython", "312", "darwin">>,
    platform |-> <<"macosx", "10.9", "universal2">>, machine |-> "i386",
    system |-> "Darwin"],
   [soabi |-> <<"cpython", "312", "i386", "linux", "gnu">>,
    platform |-> <<"linux", "i686">>, machine |-> "i686", system |-> "Linux"]}

Environs ==
  {[set |-> FALSE, val |-> None],
   [set |-> TRUE, val |-> <<>>],
   [set |-> TRUE, val |-> <<"/usr/bin", ":", "/bin">>]}

ArgSets ==
  {[location |-> l, program |-> g, info_json |-> j] :
     l \in {None, <<"rust">>}, g \in {None, <<"prog">>},
     j \in {None, <<"info.json">>}}

SubDirStates == {{}, {"rustup-init"}, SubDirs}

\* The state before any run: nothing downloaded, no process started.
InitFlow ==
  /\ entries = [x \in Paths |-> 0]
  /\ content = [i \in Inodes |-> EmptyFile]
  /\ heads = 0
  /\ gets = 0
  /\ runs = 0
  /\ pc = [p \in Procs |-> "idle"]
  /\ err = [p \in Procs |-> ""]
  /\ triple = [p \in Procs |-> None]
  /\ tmp = [p \in Procs |-> 0]
  /\ fd = [p \in Procs |-> 0]
  /\ sent = [p \in Procs |-> 0]
  /\ out = [p \in Procs |-> <<>>]
  /\ extra_env = [p \in Procs |-> NoOverlay]
  /\ overlay = [p \in Procs |-> NoOverlay]
  /\ wrote = [p \in Procs |-> "none"]

Init ==
  /\ host \in Hosts
  /\ environ \in Environs
  /\ args \in ArgSets
  /\ dirs \in SubDirStates
  /\ res = NoCall
  /\ InitFlow

\* One invocation at a time: consecutive runs of the entry point.
Next == Step(1)

Spec == Init /\ [][Next]_vars

\* Two invocations against the same installation directory.
InitConc ==
  /\ host \in {h \in Hosts : h.system # "Darwin"}
  /\ environ = [set |-> TRUE, val |-> <<>>]
  /\ args = [location |-> None, program |-> None, info_json |-> None]
  /\ dirs = {}
  /\ res = NoCall
  /\ InitFlow

NextConc == \E p \in Procs : Step(p)

SpecConc == InitConc /\ [][NextConc]_vars

\* The resolver alone, over every tag of the bounded vocabulary.
InitTriple ==
  /\ \E n \in 1..MaxPlat : \E t \in [1..n -> Words] : \E m \in Machines :
       \/ \E k \in 0..MaxPrefix : \E pre \in [1..k -> PrefixWords] :
            host = [soabi |-> pre \o t, platform |-> <<"win32">>,
                    machine |-> m, system |-> "Linux"]
       \/ \E s \in {None, <<"">>} :
            host = [soabi |-> s, platform |-> t,
                    machine |-> m, system |-> "Linux"]
  /\ environ = [set |-> TRUE, val |-> <<>>]
  /\ args = [location |-> None, program |-> None, info_json |-> None]
  /\ dirs = {}
  /\ res = NoCall
  /\ InitFlow

CallGetTriple ==
  /\ res = NoCall
  /\ res' = get_triple(host.soabi, host.platform, host.machine)
  /\ UNCHANGED <<inputVars, fsVars, heads, gets, runs, pc, err, triple, tmp,
                 fd, sent, out, extra_env, overlay, wrote>>

SpecTriple == InitTriple /\ [][CallGetTriple]_vars

\* ================================================================ claims

Range(f) == {f[i] : i \in DOMAIN f}

Returned(t) == res.kind = "return" /\ res.target = t
Rejected == res.kind = "exit" /\ res.code = 1

\* C1: get_triple either returns a member of rustup_targets or ends the run
\* with an error (sys.exit or a raised exception, both with a non-zero status);
\* it never returns a triple outside the list.
C1_ReturnsOnlySupportedTriples ==
  res.kind # "none" =>
    \/ res.kind = "return" /\ res.target \in rustup_targets
    \/ res.kind \in {"exit", "raise"} /\ res.code # 0 /\ res.target = None

\* A tag whose computed triple rustup does not ship was rejected by the
\* membership test.
C1_Witness ==
  /\ res.kind = "exit"
  /\ res.tag = <<"i386", "linux", "gnu">>
  /\ res.out[Len(res.out)] = "Target triple not supported by rustup"

FailureLines ==
  {"Unrecognized linux platform", "Unsupported platform",
   "Target triple not supported by rustup"}

\* C6: every failure of get_triple is sys.exit(1) preceded by a diagnostic
\* line for that failure on the sink; none is a raised exception.
C6_EveryFailureIsDiagnosedExit ==
  res.kind \in {"exit", "raise"} =>
    /\ res.kind = "exit"
    /\ res.code = 1
    /\ Len(res.out) > 0
    /\ res.out[Len(res.out)] \in FailureLines

\* The triple the Linux branch builds from a tag, <<>> when the tag has
\* neither of the two accepted shapes.
LinuxTriple(t) ==
  IF Len(t) = 3 /\ t[2] = "linux"
  THEN <<t[1], "unknown", "linux", t[3]>>
  ELSE IF Len(t) = 3 /\ t[2] \in Known64 /\ t[3] = "linux"
       THEN <<t[2], "unknown", "linux", "gnu">>
       ELSE None

\* C7 as stated: a Linux tag <arch>-linux-<libc> resolves to
\* <arch>-unknown-linux-<libc>, a known 64-bit architecture without a libc
\* suffix resolves to <arch>-unknown-linux-gnu, and every other Linux tag is
\* rejected with exit code 1.
C7_LinuxTagsResolve ==
  (res.kind # "none" /\ HasDashLinux(res.tag)) =>
    IF LinuxTriple(res.tag) # None
    THEN Returned(LinuxTriple(res.tag))
    ELSE Rejected

\* C7 amended: the triple built from a Linux tag of one of the two shapes is
\* returned when it is in rustup_targets and rejected with exit code 1 when
\* it is not; every other Linux tag is rejected with exit code 1.
C7_LinuxTagsResolveIfSupported ==
  (res.kind # "none" /\ HasDashLinux(res.tag)) =>
    IF LinuxTriple(res.tag) # None /\ LinuxTriple(res.tag) \in rustup_targets
    THEN Returned(LinuxTriple(res.tag))
    ELSE Rejected

\* A GraalPy-style tag without libc suffix resolved to the glibc triple.
C7_Witness ==
  /\ res.tag = <<"native", "aarch64", "linux">>
  /\ Returned(<<"aarch64", "unknown", "linux", "gnu">>)

\* C8: for a macOS tag the result depends on the machine architecture alone
\* (arm64/aarch64, x86_64, anything else an error), and the Windows
\* spellings give their fixed triples.
C8_MacAndWindowsTags ==
  res.kind # "none" =>
    /\ (HasDarwin(res.tag) /\ ~HasDashLinux(res.tag)) =>
         IF host.machine \in {"arm64", "aarch64"}
         THEN Returned(<<"aarch64", "apple", "darwin">>)
         ELSE IF host.machine = "x86_64"
              THEN Returned(<<"x86_64", "apple", "darwin">>)
              ELSE res.kind \in {"exit", "raise"} /\ res.target = None
    /\ res.tag \in {<<"win", "amd64">>, <<"win_amd64">>,
                    <<"native", "x86_64", "win32">>}
         => Returned(<<"x86_64", "pc", "windows", "msvc">>)
    /\ res.tag = <<"win32">> => Returned(<<"i686", "pc", "windows", "msvc">>)

\* A macOS tag naming x86_64 on an arm64 machine resolved to the arm triple.
C8_Witness ==
  /\ res.tag = <<"x86_64", "darwin">>
  /\ host.machine = "arm64"
  /\ Returned(<<"aarch64", "apple", "darwin">>)

IsComplete(f) == \E q \in Procs : f.data = Body(q)

DownloadPcs == {"head", "open", "status", "stream", "chmod", "replace"}
DownloadErrs == {"TransportError", "HTTPStatusError", "ReadError"}

\* C2: the destination path holds a file only once the whole body was
\* streamed and the status check passed: it is absent all through a download
\* and after a download that failed, and whatever it holds is a complete body.
C2_DestinationOnlyAfterCompleteDownload ==
  /\ entries[Dest] # 0 => IsComplete(content[entries[Dest]])
  /\ \A p \in Procs :
       (pc[p] \in DownloadPcs \/ err[p] \in DownloadErrs) => entries[Dest] = 0

\* A stream that failed after its first chunk left a partial temporary file
\* and no destination.
C2_Witness ==
  /\ err[1] = "ReadError"
  /\ sent[1] >= 1
  /\ entries[Dest] = 0
  /\ \E x \in TmpNames :
       entries[x] # 0 /\ Len(content[entries[x]].data) = sent[1]

\* C3: once the destination file exists, no step of setup_rust issues a HEAD
\* or GET request or changes the file, however many runs follow.
C3_CachedBootstrapperNotRefetched ==
  [][entries[Dest] # 0 =>
       /\ heads' = heads
       /\ gets' = gets
       /\ entries'[Dest] = entries[Dest]
       /\ content'[entries[Dest]] = content[entries[Dest]]]_vars

\* Three runs were started, the last one finished, and only one download was
\* ever made.
C3_Witness ==
  /\ runs >= 3
  /\ pc[1] = "done"
  /\ "Rustup already downloaded" \in Range(out[1])
  /\ heads = 1
  /\ gets = 1
  /\ entries[Dest] # 0

\* C4: the overlay's PATH is <cargo_home>/bin, the OS separator, then the
\* original PATH value unchanged (nothing when PATH is empty or not set).
C4_PathIsBinSeparatorOriginal ==
  \A p \in Procs :
    overlay[p] # NoOverlay =>
      overlay[p].PATH =
        cargo_home \o <<"bin">>
          \o <<IF host.system = "Windows" THEN ";" ELSE ":">>
          \o (IF environ.set THEN environ.val ELSE <<>>)

\* The lines of the steps that come after the step an error belongs to.
LaterLines(e) ==
  IF e \in {"SystemExit", "ValueError"}
  THEN {"Installation directory", "Rustup already downloaded",
        "Downloading rustup-init", "Installing rust",
        "Checking if cargo is installed"}
  ELSE IF e \in DownloadErrs
       THEN {"Installing rust", "Checking if cargo is installed"}
       ELSE IF e = "CalledProcessError(rustup-init)"
            THEN {"Checking if cargo is installed"}
            ELSE {}

\* C5: a failed step ends the run: no later step has run, setup_rust has
\* returned no overlay, and main has written no JSON to the file or stdout.
C5_FailureStopsTheRun ==
  \A p \in Procs :
    err[p] # "" =>
      /\ pc[p] = "failed"
      /\ overlay[p] = NoOverlay
      /\ wrote[p] = "none"
      /\ LaterLines(err[p]) \cap Range(out[p]) = {}
      /\ err[p] # "CalledProcessError(cargo)" => extra_env[p] = NoOverlay

\* The bootstrapper exited non-zero in a run that was given --info-json.
C5_Witness ==
  /\ err[1] = "CalledProcessError(rustup-init)"
  /\ Truthy(args.info_json)
  /\ wrote[1] = "none"

\* C9: rustup-init, rustup and cargo all exist from the download check to
\* the bootstrapper invocation.
C9_SubdirectoriesExistBeforeDownload ==
  \A p \in Procs :
    pc[p] \in {"check", "install"} \cup DownloadPcs => SubDirs \subseteq dirs

\* C10: with two interleaved invocations, each writes only its own temporary
\* file, and the destination is absent or holds one complete body.
C10_ConcurrentDownloadsNeverExposePartialFile ==
  /\ entries[Dest] # 0 => IsComplete(content[entries[Dest]])
  /\ \A p \in Procs :
       fd[p] # 0 =>
         /\ content[fd[p]].data = SubSeq(Body(p), 1, sent[p])
         /\ entries[TmpPath(tmp[p])] = fd[p]
         /\ entries[Dest] # fd[p]
         /\ \A q \in Procs \ {p} : fd[q] # fd[p] /\ tmp[q] # tmp[p]

\* One invocation has renamed its file into place while the other is still
\* in the middle of its stream.
C10_Witness ==
  /\ entries[Dest] # 0
  /\ \E p \in Procs : pc[p] = "stream" /\ sent[p] >= 1 /\ fd[p] # 0

====
